---- MODULE Spec2Model ----
(***************************************************************************)
(* The two MCHP-like driver loops of DOLOS-DEPLOY:                         *)
(*   src/src/SMOL/mchp-like/agent.py  (smolagents CodeAgent, synchronous)  *)
(*   src/src/BU/mchp-like/agent.py    (browser_use Agent, asyncio)         *)
(* Both run clusters of sampled tasks forever, with randomised delays, a   *)
(* per-task recovery handler and a chunked inter-cluster wait.             *)
(*                                                                         *)
(* A state is a position of the driver in a blocking operation (a sleep,   *)
(* an agent run, ...); an action completes that operation with one of its  *)
(* outcomes.  Durations are whole seconds.  The agent, the model and the   *)
(* browser are opaque collaborators: a run returns a result or raises.     *)
(* KeyboardInterrupt is modelled as the Python exception raised at the     *)
(* operation in progress.                                                  *)
(***************************************************************************)
EXTENDS Integers, Sequences, FiniteSets, TLC

VARIABLES
    driver,          \* which script runs: "SMOL" or "BU"
    pc,              \* the operation in progress
    iteration,       \* main(): iteration
    cluster_size,    \* perform_task_cluster(): cluster_size
    selected_tasks,  \* perform_task_cluster(): selected_tasks
    i,               \* perform_task_cluster(): loop index i (1-based)
    delay,           \* seconds of the sleep in progress (0 when not sleeping)
    result,          \* perform_task_cluster(): result ("unset", "value", "None")
    wait_time,       \* main(): wait_time
    wait_chunks,     \* main(): wait_chunks
    chunk,           \* main(): chunk
    exitStatus,      \* argument of sys.exit, -1 while none was called
    \* observations of the run (written, never read, by the driver)
    log,             \* console lines of the current task / phase, in order
    attempts,        \* tasks whose execution was started in this cluster
    executions,      \* task executions started since the process began
    outcome,         \* outcome of the current task's execution
    sleeps,          \* sleeps completed since the current task's execution ended
    prev,            \* how the loop body of the previous task of this cluster ended
    slept,           \* inter-cluster wait: the sleeps completed so far
    statusAt,        \* inter-cluster wait: chunks after which a status line was printed
    raised,          \* the exception that left the loop: kind, place, executions then
    interrupted,     \* the last KeyboardInterrupt raised: place, executions then
    browser          \* BU: the Browser handle: times opened, open now, agents using it

vars == <<driver, pc, iteration, cluster_size, selected_tasks, i, delay, result,
          wait_time, wait_chunks, chunk, exitStatus, log, attempts, executions,
          outcome, sleeps, prev, slept, statusAt, raised, interrupted, browser>>

---------------------------------------------------------------------------
(* Bounds of the model *)

\* Length of the task pool (44 strings in SMOL, 45 in BU, all distinct).
PoolSize == 5

\* Number of outer-loop iterations explored (the loop itself is unbounded).
MaxIter == 2

---------------------------------------------------------------------------
(* Configuration literals *)

TASK_CLUSTER_COUNT == 5
TASK_INTERVAL == 10
GROUPING_INTERVAL == 500
MIN_ACTION_DELAY == 1
MAX_ACTION_DELAY == 20

\* random_delay(2, 5) at the call site
PRE_DELAY_MIN == 2
PRE_DELAY_MAX == 5
\* random.uniform(TASK_INTERVAL - 5, TASK_INTERVAL + 5)
INTER_JITTER == 5
\* time.sleep(5) in the recovery handler
RECOVERY_WAIT == 5
\* 30-second chunks of the inter-cluster wait
CHUNK_SECONDS == 30
\* chunk % 4 == 3
STATUS_EVERY == 4
\* random.uniform(0.8, 1.2), in percent
VARIANCE_MIN_PCT == 80
VARIANCE_MAX_PCT == 120

Drivers == {"SMOL", "BU"}

\* The exceptions the collaborators and the console can raise, and the interrupt.
ErrorKinds == {"TimeoutError", "ConnectionError", "Exception"}
Interrupt == "KeyboardInterrupt"

---------------------------------------------------------------------------
(* Pure helpers *)

Min(a, b) == IF a < b THEN a ELSE b

\* The static task list: PoolSize distinct task strings, named by position.
tasks == [n \in 1..PoolSize |-> n]

RemoveAt(s, j) == [n \in 1..(Len(s) - 1) |-> IF n < j THEN s[n] ELSE s[n + 1]]

\* Fault variant of Sample: picks with replacement (random.choices).
SampleWithReplacement(population, k) == [1..k -> {population[j] : j \in 1..Len(population)}]

\* random.sample(population, k): k picks, each among the positions not yet picked.
RECURSIVE Sample(_, _)
Sample(population, k) ==
    IF k = 0 THEN {<<>>}
    ELSE UNION {{<<population[j]>> \o s : s \in Sample(RemoveAt(population, j), k - 1)} :
                j \in 1..Len(population)}

\* cluster_size = min(TASK_CLUSTER_COUNT, len(tasks))
ClusterSize(pool) == Min(TASK_CLUSTER_COUNT, Len(pool))

\* random.uniform(a, b), at whole seconds
Uniform(a, b) == a..b

\* Fault variant of random_delay: the arguments are ignored for the defaults.
random_delayDefaults(min_delay, max_delay) == Uniform(MIN_ACTION_DELAY, MAX_ACTION_DELAY)

\* random_delay(min_delay, max_delay): the delay drawn, slept and returned
random_delay(min_delay, max_delay) == Uniform(min_delay, max_delay)

\* inter_delay = random.uniform(TASK_INTERVAL - 5, TASK_INTERVAL + 5)
InterDelays == Uniform(TASK_INTERVAL - INTER_JITTER, TASK_INTERVAL + INTER_JITTER)

\* Fault variants of HasInterDelay: the delay also follows the final task; the delay
\* is dropped after the last but one task.
HasInterDelayInclusive(idx, size) == idx <= size
HasInterDelayShort(idx, size) == idx < size - 1

\* if i < cluster_size: (the inter-task delay is slept)
HasInterDelay(idx, size) == idx < size

\* for i, task in enumerate(selected_tasks, 1): is there a next task after idx
HasNextTask(idx, size) == idx < size

\* wait_time = GROUPING_INTERVAL * random.uniform(0.8, 1.2)
WaitTimes == {(GROUPING_INTERVAL * v) \div 100 : v \in VARIANCE_MIN_PCT..VARIANCE_MAX_PCT}

\* Fault variant of WaitChunks: the quotient rounded up.
WaitChunksRoundedUp(w) == (w + CHUNK_SECONDS - 1) \div CHUNK_SECONDS

\* wait_chunks = int(wait_time / 30)
WaitChunks(w) == w \div CHUNK_SECONDS

\* Fault variant of Remainder: the partial chunk is dropped.
RemainderDropped(w) == 0

\* remainder = wait_time % 30
Remainder(w) == w % CHUNK_SECONDS

\* remaining = wait_time - (chunk + 1) * 30
Remaining(w, c) == w - (c + 1) * CHUNK_SECONDS

\* Fault variant of StatusDue: every fourth chunk, whatever remains of the wait.
StatusDueEveryFourth(remaining, c) == c % STATUS_EVERY = STATUS_EVERY - 1

\* if remaining > 30 and chunk % 4 == 3:
StatusDue(remaining, c) == remaining > CHUNK_SECONDS /\ c % STATUS_EVERY = STATUS_EVERY - 1

---------------------------------------------------------------------------
(* Positions *)

\* inside the try block of the per-task loop body
TryPcs == {"pre_sleep", "run", "result", "inter_sleep"}
\* statements outside the per-task try block whose console output can fail
OuterPcs == {"loop", "cluster", "cluster_end", "chunk_sleep", "rem_sleep"}
Terminated == {"exited", "uncaught"}

\* Fault variants of CaughtBy.
\* No per-task handler: an error of the try block travels on to main().
CaughtByNoTaskHandler(d, at, exc) ==
    IF at = "init"
    THEN IF d = "SMOL" /\ exc # Interrupt THEN "module" ELSE "nobody"
    ELSE IF d = "BU" /\ at = "run" /\ exc # Interrupt THEN "perform_browser_task"
    ELSE "main"
\* A bare except in the per-task handler: it swallows KeyboardInterrupt too.
CaughtByBareExcept(d, at, exc) ==
    IF at = "init"
    THEN IF d = "SMOL" /\ exc # Interrupt THEN "module" ELSE "nobody"
    ELSE IF d = "BU" /\ at = "run" /\ exc # Interrupt THEN "perform_browser_task"
    ELSE IF at \in TryPcs THEN "perform_task_cluster"
    ELSE "main"
\* perform_browser_task without handlers: its errors reach the per-task handler.
CaughtByNoBrowserHandler(d, at, exc) ==
    IF at = "init"
    THEN IF d = "SMOL" /\ exc # Interrupt THEN "module" ELSE "nobody"
    ELSE IF at \in TryPcs /\ exc # Interrupt THEN "perform_task_cluster"
    ELSE "main"
\* A bare except in perform_browser_task: it turns KeyboardInterrupt into None too.
CaughtByBrowserBareExcept(d, at, exc) ==
    IF at = "init"
    THEN IF d = "SMOL" /\ exc # Interrupt THEN "module" ELSE "nobody"
    ELSE IF d = "BU" /\ at = "run" THEN "perform_browser_task"
    ELSE IF at \in TryPcs /\ exc # Interrupt THEN "perform_task_cluster"
    ELSE "main"
\* No try around the construction of the SMOL model and agent.
CaughtByNoModuleHandler(d, at, exc) ==
    IF at = "init" THEN "nobody"
    ELSE IF d = "BU" /\ at = "run" /\ exc # Interrupt THEN "perform_browser_task"
    ELSE IF at \in TryPcs /\ exc # Interrupt THEN "perform_task_cluster"
    ELSE "main"

\* Which handler receives exception exc raised at position at in driver d.
\*   BU perform_browser_task: except TimeoutError / ConnectionError / Exception
\*   perform_task_cluster:    except KeyboardInterrupt: raise; except Exception
\*   main:                    except KeyboardInterrupt; except Exception
\*   module level (SMOL):     except Exception around the agent construction
CaughtBy(d, at, exc) ==
    IF at = "init"
    THEN IF d = "SMOL" /\ exc # Interrupt THEN "module" ELSE "nobody"
    ELSE IF d = "BU" /\ at = "run" /\ exc # Interrupt THEN "perform_browser_task"
    ELSE IF at \in TryPcs /\ exc # Interrupt THEN "perform_task_cluster"
    ELSE "main"

\* Fault variant of MainExitStatus: sys.exit(0) in both handlers.
MainExitStatusZero(exc) == 0

\* sys.exit status of main()'s handlers
MainExitStatus(exc) == IF exc = Interrupt THEN 0 ELSE 1

\* Fault variant of PrintsTraceback: no driver prints the trace.
PrintsTracebackNever(d) == FALSE

\* traceback.print_exc() in main()'s except Exception
PrintsTraceback(d) == d = "BU"

\* console lines of main()'s handlers
MainHandlerLog(d, exc) ==
    IF exc = Interrupt THEN <<"stopped_by_user", "graceful_shutdown">>
    ELSE IF PrintsTraceback(d) THEN <<"fatal_error", "traceback", "terminated">>
    ELSE <<"fatal_error", "terminated">>

\* console line of perform_browser_task's handlers
BrowserTaskLog(exc) ==
    IF exc = "TimeoutError" THEN "error_timed_out"
    ELSE IF exc = "ConnectionError" THEN "error_connection"
    ELSE "error_task_failed"

\* first console line of the per-task handler
ClusterHandlerLog(d) == IF d = "SMOL" THEN "error_task_failed" ELSE "error_unexpected"

NoPrev == [idx |-> 0, outcome |-> "none", sleeps |-> <<>>, handled |-> FALSE]
NoRaise == [exc |-> "none", at |-> "none", executions |-> 0]
NoInterrupt == [at |-> "none", executions |-> 0]
NoBrowser == [opens |-> 0, open |-> FALSE, users |-> 0]

\* async with Browser(headless=True) as browser: the handle is created and entered
OpenBrowser(b) == [opens |-> b.opens + 1, open |-> TRUE, users |-> 0]

\* Fault variant of UseBrowser: a Browser of its own is created for the task.
UseFreshBrowser(b) == [opens |-> b.opens + 1, open |-> TRUE, users |-> 1]

\* Agent(task=task, llm=llm, browser=browser): a new agent around the handle passed
\* in, then agent.run
UseBrowser(b) == [b EXCEPT !.users = @ + 1]

\* agent.run returns or raises: the task's agent is dropped
DropAgent(b) == [b EXCEPT !.users = @ - 1]

\* the async with block is left: the handle is closed
ReleaseBrowser(b) == [b EXCEPT !.open = FALSE]

---------------------------------------------------------------------------
(* Initial state: the interpreter starts executing the module *)

Init ==
    /\ driver \in Drivers
    /\ pc = "init"
    /\ iteration = 0
    /\ cluster_size = 0
    /\ selected_tasks = <<>>
    /\ i = 0
    /\ delay = 0
    /\ result = "unset"
    /\ wait_time = 0
    /\ wait_chunks = 0
    /\ chunk = 0
    /\ exitStatus = -1
    /\ log = <<>>
    /\ attempts = <<>>
    /\ executions = 0
    /\ outcome = "none"
    /\ sleeps = <<>>
    /\ prev = NoPrev
    /\ slept = <<>>
    /\ statusAt = {}
    /\ raised = NoRaise
    /\ interrupted = NoInterrupt
    /\ browser = NoBrowser

---------------------------------------------------------------------------
(* Exceptions *)

\* Exception exc is raised by the operation in progress and travels to its handler.
Propagate(exc) ==
    LET handler == CaughtBy(driver, pc, exc) IN
    /\ interrupted' = IF exc = Interrupt
                      THEN [at |-> pc, executions |-> executions]
                      ELSE interrupted
    \* BU: an exception leaving agent.run drops the task's agent; one leaving
    \* main()'s async with block closes the browser on its way to the handler
    /\ browser' = LET b == IF driver = "BU" /\ pc = "run" THEN DropAgent(browser)
                           ELSE browser
                  IN IF handler = "main" /\ b.open THEN ReleaseBrowser(b) ELSE b
    /\ CASE handler = "perform_browser_task" ->
               \* print the error, return None: the caller's try block goes on
               /\ pc' = "result"
               /\ result' = "None"
               /\ outcome' = "failed"
               /\ log' = Append(log, BrowserTaskLog(exc))
               /\ UNCHANGED <<driver, iteration, cluster_size, selected_tasks, i, delay,
                              wait_time, wait_chunks, chunk, exitStatus, attempts,
                              executions, sleeps, prev, slept, statusAt, raised>>
         [] handler = "perform_task_cluster" ->
               \* print the error and the recovery notice, then time.sleep(5)
               /\ pc' = "recover_sleep"
               /\ delay' = RECOVERY_WAIT
               /\ outcome' = IF pc = "run" THEN "failed" ELSE outcome
               /\ log' = log \o <<ClusterHandlerLog(driver), "recovery">>
               /\ UNCHANGED <<driver, iteration, cluster_size, selected_tasks, i, result,
                              wait_time, wait_chunks, chunk, exitStatus, attempts,
                              executions, sleeps, prev, slept, statusAt, raised>>
         [] handler = "main" ->
               \* main()'s handlers: print, (traceback), sys.exit
               /\ pc' = "exited"
               /\ exitStatus' = MainExitStatus(exc)
               /\ log' = log \o MainHandlerLog(driver, exc)
               /\ raised' = [exc |-> exc, at |-> pc, executions |-> executions]
               /\ delay' = 0
               /\ UNCHANGED <<driver, iteration, cluster_size, selected_tasks, i,
                              result, wait_time, wait_chunks, chunk, attempts, executions,
                              outcome, sleeps, prev, slept, statusAt>>
         [] handler = "module" ->
               \* SMOL module level: print "[ERROR] Failed to initialize agent", sys.exit(1)
               /\ pc' = "exited"
               /\ exitStatus' = 1
               /\ log' = Append(log, "error_init")
               /\ raised' = [exc |-> exc, at |-> pc, executions |-> executions]
               /\ delay' = 0
               /\ UNCHANGED <<driver, iteration, cluster_size, selected_tasks, i,
                              result, wait_time, wait_chunks, chunk, attempts, executions,
                              outcome, sleeps, prev, slept, statusAt>>
         [] OTHER ->
               \* no handler: the interpreter ends the process, sys.exit is never called
               /\ pc' = "uncaught"
               /\ raised' = [exc |-> exc, at |-> pc, executions |-> executions]
               /\ delay' = 0
               /\ UNCHANGED <<driver, iteration, cluster_size, selected_tasks, i,
                              result, wait_time, wait_chunks, chunk, exitStatus, log,
                              attempts, executions, outcome, sleeps, prev,
                              slept, statusAt>>

\* Ctrl-C: KeyboardInterrupt raised at whatever operation is in progress.
KeyboardInterruptRaised ==
    /\ pc \notin Terminated
    /\ Propagate(Interrupt)

\* A statement outside the per-task try block raises (console output failing).
ConsoleFails ==
    /\ pc \in OuterPcs
    /\ Propagate("Exception")

---------------------------------------------------------------------------
(* Start-up *)

\* SMOL: LiteLLMModel / CodeAgent constructed; BU: ChatOllama constructed.
\* main() then prints the configuration and sets iteration = 0.
InitAgentOk ==
    /\ pc = "init"
    /\ pc' = IF driver = "BU" THEN "browser" ELSE "loop"
    /\ iteration' = 0
    /\ log' = <<"configuration">>
    /\ UNCHANGED <<driver, cluster_size, selected_tasks, i, delay, result, wait_time,
                   wait_chunks, chunk, exitStatus, attempts, executions, outcome,
                   sleeps, prev, slept, statusAt, raised, interrupted, browser>>

InitAgentFails ==
    /\ pc = "init"
    /\ Propagate("Exception")

\* BU: async with Browser(headless=True) as browser
OpenBrowserOk ==
    /\ pc = "browser"
    /\ pc' = "loop"
    /\ log' = Append(log, "browser_connected")
    /\ browser' = OpenBrowser(browser)
    /\ UNCHANGED <<driver, iteration, cluster_size, selected_tasks, i, delay, result,
                   wait_time, wait_chunks, chunk, exitStatus, attempts, executions,
                   outcome, sleeps, prev, slept, statusAt, raised, interrupted>>

OpenBrowserFails ==
    /\ pc = "browser"
    /\ Propagate("Exception")

---------------------------------------------------------------------------
(* The cluster: perform_task_cluster *)

\* Top of one loop body: print the task header, then random_delay(2, 5) sleeps.
BeginTask(idx) ==
    /\ i' = idx
    /\ pc' = "pre_sleep"
    /\ delay' \in random_delay(PRE_DELAY_MIN, PRE_DELAY_MAX)
    /\ result' = "unset"
    /\ outcome' = "pending"
    /\ sleeps' = <<>>
    /\ log' = <<"task_header">>

\* Fault variant of Advance: a failed task is attempted again before the next one.
AdvanceRetryFailed(doneSleeps, viaHandler) ==
    /\ prev' = [idx |-> i, outcome |-> outcome, sleeps |-> doneSleeps,
                handled |-> viaHandler]
    /\ IF outcome = "failed"
       THEN BeginTask(i)
       ELSE IF HasNextTask(i, cluster_size)
       THEN BeginTask(i + 1)
       ELSE /\ pc' = "cluster_end"
            /\ delay' = 0
            /\ sleeps' = <<>>
            /\ log' = <<"cluster_completed">>
            /\ UNCHANGED <<i, result, outcome>>

\* The loop body of task i is over (its last sleep being done): the for loop takes
\* the next sampled task, or ends and "Task cluster completed" is printed.
Advance(doneSleeps, viaHandler) ==
    /\ prev' = [idx |-> i, outcome |-> outcome, sleeps |-> doneSleeps,
                handled |-> viaHandler]
    /\ IF HasNextTask(i, cluster_size)
       THEN BeginTask(i + 1)
       ELSE /\ pc' = "cluster_end"
            /\ delay' = 0
            /\ sleeps' = <<>>
            /\ log' = <<"cluster_completed">>
            /\ UNCHANGED <<i, result, outcome>>

\* while True: iteration += 1, print the header, call perform_task_cluster.
\* (wait_time, wait_chunks and chunk are not read again before they are reassigned.)
StartIteration ==
    /\ pc = "loop"
    /\ iteration < MaxIter
    /\ iteration' = iteration + 1
    /\ pc' = "cluster"
    /\ wait_time' = 0
    /\ wait_chunks' = 0
    /\ chunk' = 0
    /\ slept' = <<>>
    /\ statusAt' = {}
    /\ log' = <<"iteration_header">>
    /\ UNCHANGED <<driver, cluster_size, selected_tasks, i, delay, result, exitStatus,
                   attempts, executions, outcome, sleeps, prev, raised, interrupted, browser>>

\* cluster_size = min(...); selected_tasks = random.sample(...); first loop body begins.
SampleCluster ==
    /\ pc = "cluster"
    /\ cluster_size' = ClusterSize(tasks)
    /\ selected_tasks' \in Sample(tasks, ClusterSize(tasks))
    /\ attempts' = <<>>
    /\ prev' = NoPrev
    /\ BeginTask(1)
    /\ UNCHANGED <<driver, iteration, wait_time, wait_chunks, chunk, exitStatus,
                   executions, slept, statusAt, raised, interrupted, browser>>

\* Fault variant of PreDelayDone: the execution is started but not waited for (BU:
\* asyncio.create_task instead of await); the loop body goes on with a task object
\* in hand while the execution is still in flight.
PreDelayDoneNoWait ==
    /\ pc = "pre_sleep"
    /\ pc' = "result"
    /\ delay' = 0
    /\ result' = "value"
    /\ log' = Append(log, "pre_delay")
    /\ attempts' = Append(attempts, selected_tasks[i])
    /\ executions' = executions + 1
    /\ browser' = IF driver = "BU" THEN UseBrowser(browser) ELSE browser
    /\ UNCHANGED <<driver, iteration, cluster_size, selected_tasks, i,
                   wait_time, wait_chunks, chunk, exitStatus, outcome, sleeps, prev,
                   slept, statusAt, raised, interrupted>>

\* The pre-task delay is over: its length is printed and the task execution starts
\* (SMOL: agent.run(task); BU: await perform_browser_task(browser, task)).
PreDelayDone ==
    /\ pc = "pre_sleep"
    /\ pc' = "run"
    /\ delay' = 0
    /\ log' = Append(log, "pre_delay")
    /\ attempts' = Append(attempts, selected_tasks[i])
    /\ executions' = executions + 1
    /\ browser' = IF driver = "BU" THEN UseBrowser(browser) ELSE browser
    /\ UNCHANGED <<driver, iteration, cluster_size, selected_tasks, i, result,
                   wait_time, wait_chunks, chunk, exitStatus, outcome, sleeps, prev,
                   slept, statusAt, raised, interrupted>>

\* The agent returns a result.
TaskSucceeds ==
    /\ pc = "run"
    /\ pc' = "result"
    /\ result' = "value"
    /\ outcome' = "ok"
    /\ browser' = IF driver = "BU" THEN DropAgent(browser) ELSE browser
    /\ UNCHANGED <<driver, iteration, cluster_size, selected_tasks, i, delay,
                   wait_time, wait_chunks, chunk, exitStatus, log, attempts,
                   executions, sleeps, prev, slept, statusAt, raised, interrupted>>

\* The agent (BU: its construction or its run) raises.
TaskFails ==
    /\ pc = "run"
    /\ \E exc \in ErrorKinds : Propagate(exc)

\* Fault variant of ResultLog: BU reports "Task completed" whatever the result.
ResultLogIgnoresNone(d, res) ==
    IF d = "SMOL" THEN <<"result", "time">> ELSE <<"result_completed", "time">>

\* console lines after the execution: the result and the execution time
ResultLog(d, res) ==
    IF d = "SMOL" THEN <<"result", "time">>
    ELSE IF res = "value" THEN <<"result_completed", "time">>
    ELSE <<"result_failed", "time">>

\* The result and the time are printed; then the inter-task delay starts, or the
\* loop body ends.
ResultPrinted ==
    /\ pc = "result"
    /\ IF HasInterDelay(i, cluster_size)
       THEN /\ pc' = "inter_sleep"
            /\ delay' \in InterDelays
            /\ log' = log \o ResultLog(driver, result) \o <<"inter_wait">>
            /\ UNCHANGED <<i, result, outcome, sleeps, prev>>
       ELSE Advance(sleeps, FALSE)
    /\ UNCHANGED <<driver, iteration, cluster_size, selected_tasks, wait_time,
                   wait_chunks, chunk, exitStatus, attempts, executions,
                   slept, statusAt, raised, interrupted, browser>>

\* str(result) raises (the result is an object of the agent library).
ResultRaises ==
    /\ pc = "result"
    /\ result = "value"
    /\ Propagate("Exception")

\* time.sleep(inter_delay) returns: the loop body is over.
InterDelayDone ==
    /\ pc = "inter_sleep"
    /\ Advance(Append(sleeps, "inter"), FALSE)
    /\ UNCHANGED <<driver, iteration, cluster_size, selected_tasks, wait_time,
                   wait_chunks, chunk, exitStatus, attempts, executions,
                   slept, statusAt, raised, interrupted, browser>>

\* time.sleep(5) of the handler returns: continue.
RecoveryDone ==
    /\ pc = "recover_sleep"
    /\ Advance(Append(sleeps, "recovery"), TRUE)
    /\ UNCHANGED <<driver, iteration, cluster_size, selected_tasks, wait_time,
                   wait_chunks, chunk, exitStatus, attempts, executions,
                   slept, statusAt, raised, interrupted, browser>>

---------------------------------------------------------------------------
(* The inter-cluster wait: main *)

\* Fault variant of AfterChunks: the outer loop ends after the wait (main returns).
AfterChunksReturn(w) ==
    /\ pc' = "exited"
    /\ delay' = 0

\* After the chunk loop: the remainder sleep when positive, else the loop's top.
AfterChunks(w) ==
    IF Remainder(w) > 0
    THEN /\ pc' = "rem_sleep"
         /\ delay' = Remainder(w)
    ELSE /\ pc' = "loop"
         /\ delay' = 0

\* perform_task_cluster returns; main draws wait_time, prints the idle notice and
\* starts the first sleep of the wait.
ClusterReturn ==
    /\ pc = "cluster_end"
    /\ wait_time' \in WaitTimes
    /\ wait_chunks' = WaitChunks(wait_time')
    /\ chunk' = 0
    /\ slept' = <<>>
    /\ statusAt' = {}
    /\ log' = <<"idle_period">>
    /\ IF 0 < wait_chunks'
       THEN /\ pc' = "chunk_sleep"
            /\ delay' = CHUNK_SECONDS
       ELSE AfterChunks(wait_time')
    \* the locals of perform_task_cluster are gone
    /\ cluster_size' = 0
    /\ selected_tasks' = <<>>
    /\ i' = 0
    /\ result' = "unset"
    /\ attempts' = <<>>
    /\ outcome' = "none"
    /\ sleeps' = <<>>
    /\ prev' = NoPrev
    /\ UNCHANGED <<driver, iteration, exitStatus, executions, raised, interrupted, browser>>

\* One 30-second sleep of the chunk loop returns; remaining is computed and the
\* status line printed when due; then the next chunk, or the remainder.
ChunkDone ==
    /\ pc = "chunk_sleep"
    /\ slept' = Append(slept, delay)
    /\ statusAt' = IF StatusDue(Remaining(wait_time, chunk), chunk)
                   THEN statusAt \cup {chunk} ELSE statusAt
    /\ log' = IF StatusDue(Remaining(wait_time, chunk), chunk)
              THEN <<"status">> ELSE <<>>
    /\ IF chunk + 1 < wait_chunks
       THEN /\ chunk' = chunk + 1
            /\ pc' = "chunk_sleep"
            /\ delay' = CHUNK_SECONDS
       ELSE /\ chunk' = chunk
            /\ AfterChunks(wait_time)
    /\ UNCHANGED <<driver, iteration, cluster_size, selected_tasks, i, result,
                   wait_time, wait_chunks, exitStatus, attempts, executions, outcome,
                   sleeps, prev, raised, interrupted, browser>>

\* The remainder sleep returns: back to the top of while True.
RemainderDone ==
    /\ pc = "rem_sleep"
    /\ slept' = Append(slept, delay)
    /\ pc' = "loop"
    /\ delay' = 0
    /\ log' = <<>>
    /\ UNCHANGED <<driver, iteration, cluster_size, selected_tasks, i, result,
                   wait_time, wait_chunks, chunk, exitStatus, attempts, executions,
                   outcome, sleeps, prev, statusAt, raised, interrupted, browser>>

---------------------------------------------------------------------------

Next ==
    \/ InitAgentOk
    \/ InitAgentFails
    \/ OpenBrowserOk
    \/ OpenBrowserFails
    \/ StartIteration
    \/ SampleCluster
    \/ PreDelayDone
    \/ TaskSucceeds
    \/ TaskFails
    \/ ResultPrinted
    \/ ResultRaises
    \/ InterDelayDone
    \/ RecoveryDone
    \/ ClusterReturn
    \/ ChunkDone
    \/ RemainderDone
    \/ KeyboardInterruptRaised
    \/ ConsoleFails

Spec == Init /\ [][Next]_vars

\* The steps of the outer loop that need no collaborator: perform_task_cluster
\* returns, time.sleep / asyncio.sleep return, while True takes its next turn.
LoopSteps == ClusterReturn \/ ChunkDone \/ RemainderDone \/ StartIteration

\* A sleep that is not interrupted returns, and the loop has no exit of its own.
FairSpec == Spec /\ WF_vars(LoopSteps)

---------------------------------------------------------------------------
(* Properties *)

InLog(tag) == \E k \in 1..Len(log) : log[k] = tag
ErrorLines == {"error_task_failed", "error_timed_out", "error_connection",
               "error_unexpected"}
ErrorLogged == \E k \in 1..Len(log) : log[k] \in ErrorLines
InCluster == pc \in TryPcs \cup {"recover_sleep", "cluster_end"}
IsInjective(s) == \A a, b \in 1..Len(s) : a # b => s[a] # s[b]

\* C1: a non-interrupt error raised by a task execution does not abort the cluster.
\* When perform_task_cluster is about to return, every sampled task has been
\* executed, the ones sampled after a failing task included; and no error raised
\* by a task execution ever leaves the cluster (neither driver exits on it).
C1_TaskErrorDoesNotAbortCluster ==
    /\ pc = "cluster_end" => attempts = selected_tasks
    /\ raised.exc \in ErrorKinds => raised.at # "run"
    /\ (outcome = "failed" /\ pc \notin Terminated) => InCluster

\* C1 witness: in SMOL the task sampled after a failed one is being executed.
C1_Witness ==
    /\ driver = "SMOL"
    /\ pc = "run"
    /\ prev.outcome = "failed"
    /\ i = prev.idx + 1
    /\ attempts = SubSeq(selected_tasks, 1, i)

C3_RecoveryAfterEveryFailure ==
    prev.outcome = "failed" => prev.sleeps = <<"recovery">>

\* C3 amended: every recovery wait is 5 seconds and follows the error line and the
\* recovery notice.  In SMOL a failed execution is logged by the per-task handler,
\* followed by the recovery wait and then the next task.  In BU a failed execution
\* is logged inside perform_browser_task and becomes a None result: the loop body
\* goes on normally, with the inter-task delay unless the task is the last, and
\* without the recovery wait.
C3_RecoveryPerDriver ==
    /\ pc = "recover_sleep" =>
          delay = RECOVERY_WAIT /\ ErrorLogged /\ InLog("recovery")
    /\ (outcome = "failed" /\ pc \in TryPcs \cup {"recover_sleep"}) =>
          /\ ErrorLogged
          /\ driver = "SMOL" => pc = "recover_sleep"
          /\ driver = "BU" => pc \in {"result", "inter_sleep"} /\ result = "None"
    /\ prev.outcome = "failed" =>
          /\ driver = "SMOL" => prev.sleeps = <<"recovery">>
          /\ driver = "BU" =>
                prev.sleeps = IF prev.idx < cluster_size THEN <<"inter">> ELSE <<>>

\* C3 witness: SMOL has gone on to the next task after a failed one and its
\* recovery wait.
C3_Witness ==
    /\ driver = "SMOL"
    /\ pc = "pre_sleep"
    /\ prev.outcome = "failed"
    /\ prev.sleeps = <<"recovery">>
    /\ i = prev.idx + 1

C5_LoopOnlyLeftByExit ==
    /\ [](pc \in Terminated /\ iteration >= 1 =>
            /\ pc = "exited"
            /\ \/ exitStatus = 0 /\ raised.exc = Interrupt
               \/ exitStatus = 1 /\ raised.exc \in ErrorKinds)
    /\ \A n \in 1..(MaxIter - 1) :
          (pc = "cluster_end" /\ iteration = n)
             ~> ((pc = "cluster" /\ iteration = n + 1) \/ pc \in Terminated)

\* C5 witness: a second cluster was started after the first and its whole wait.
C5_Witness ==
    /\ pc = "cluster"
    /\ iteration = 2
    /\ executions = TASK_CLUSTER_COUNT
    /\ raised.exc = "none"

\* C6 as stated: after each task but the last, whatever its outcome, one inter-task
\* delay is slept before the next task's pre-task delay begins.
C6_InterDelayAfterEveryTask ==
    (prev.idx >= 1 /\ prev.idx < cluster_size) => prev.sleeps = <<"inter">>

\* C6 amended: after each task but the last whose loop body ended without reaching
\* the per-task handler (in BU that includes a failed execution, turned into None)
\* exactly one inter-task delay is slept before the next pre-task delay begins; a
\* loop body that ended in the per-task handler (in SMOL every failed execution)
\* sleeps the recovery wait instead, and no inter-task delay.
C6_InterDelayUnlessHandled ==
    /\ (prev.idx >= 1 /\ prev.idx < cluster_size) =>
          prev.sleeps = IF prev.handled THEN <<"recovery">> ELSE <<"inter">>
    /\ prev.outcome = "failed" => (prev.handled <=> driver = "SMOL")
    /\ (pc = "pre_sleep" /\ i > 1) => prev.idx = i - 1

\* C6 witness: BU sleeps the inter-task delay after a failed task and begins the
\* next task's pre-task delay.
C6_Witness ==
    /\ driver = "BU"
    /\ pc = "pre_sleep"
    /\ i = 2
    /\ prev.outcome = "failed"
    /\ prev.sleeps = <<"inter">>

\* C7: every inter-task delay lasts between TASK_INTERVAL - 5 and TASK_INTERVAL + 5
\* seconds and is slept after a task that is not the last of its cluster; the loop
\* body of the final task ends without an inter-task delay.
C7_InterDelayRangeAndNotLast ==
    /\ pc = "inter_sleep" =>
          /\ TASK_INTERVAL - INTER_JITTER <= delay
          /\ delay <= TASK_INTERVAL + INTER_JITTER
          /\ i < cluster_size
    /\ (prev.idx >= 1 /\ prev.idx = cluster_size) =>
          \A k \in 1..Len(prev.sleeps) : prev.sleeps[k] # "inter"

\* C7 witness: the longest inter-task delay, slept after the last but one task.
C7_Witness ==
    /\ pc = "inter_sleep"
    /\ delay = TASK_INTERVAL + INTER_JITTER
    /\ i = cluster_size - 1

RECURSIVE SumSeq(_)
SumSeq(s) == IF s = <<>> THEN 0 ELSE s[1] + SumSeq(Tail(s))

InWait == pc \in {"chunk_sleep", "rem_sleep"}
WaitOver == pc = "loop" /\ iteration >= 1

\* C8: the inter-cluster wait w lies within GROUPING_INTERVAL * [0.8, 1.2]; it is
\* slept as floor(w / 30) sleeps of 30 seconds, then one sleep of w mod 30 seconds
\* when that is positive, and the sleeps add up to w.
C8_WaitChunking ==
    /\ (InWait \/ WaitOver) =>
          /\ 10 * wait_time >= 8 * GROUPING_INTERVAL
          /\ 10 * wait_time <= 12 * GROUPING_INTERVAL
    /\ WaitOver =>
          \E n \in 0..Len(slept) :
             /\ n * CHUNK_SECONDS <= wait_time
             /\ wait_time < (n + 1) * CHUNK_SECONDS
             /\ \A k \in 1..n : slept[k] = CHUNK_SECONDS
             /\ Len(slept) = IF wait_time > n * CHUNK_SECONDS THEN n + 1 ELSE n
             /\ Len(slept) > n => slept[n + 1] = wait_time - n * CHUNK_SECONDS
             /\ SumSeq(slept) = wait_time

\* C8 witness: a wait of 455 seconds was slept as fifteen chunks and 5 seconds.
C8_Witness ==
    /\ WaitOver
    /\ wait_time = 15 * CHUNK_SECONDS + 5
    /\ Len(slept) = 16
    /\ slept[16] = 5

\* C9: an error other than KeyboardInterrupt that reaches main()'s handler (raised
\* by the cluster outside a task's try block, by the inter-cluster wait, ...) ends
\* the process with sys.exit(1) and nothing is executed afterwards; sys.exit(0) is
\* only ever the result of a KeyboardInterrupt.
C9_EscapedErrorIsFatal ==
    /\ (raised.exc \in ErrorKinds /\ raised.at # "init") =>
          /\ pc = "exited"
          /\ exitStatus = 1
          /\ executions = raised.executions
    /\ (pc = "exited" /\ exitStatus = 0) =>
          raised.exc = Interrupt /\ interrupted.at = raised.at

\* C9 witness: an error escapes the inter-cluster wait after a whole cluster.
C9_Witness ==
    /\ raised.exc \in ErrorKinds
    /\ raised.at = "chunk_sleep"
    /\ pc = "exited"
    /\ exitStatus = 1
    /\ executions = TASK_CLUSTER_COUNT

FatalExit == pc = "exited" /\ raised.exc \in ErrorKinds /\ raised.at # "init"

C12_EachSampledTaskOnceInOrder ==
    /\ InCluster =>
          /\ Len(attempts) = (IF pc = "pre_sleep" THEN i - 1 ELSE i)
          /\ Len(attempts) <= cluster_size
          /\ attempts = SubSeq(selected_tasks, 1, Len(attempts))
          /\ IsInjective(attempts)
    /\ (pc \in TryPcs /\ prev.outcome = "failed") =>
          /\ i = prev.idx + 1
          /\ \A k \in i..Len(attempts) : attempts[k] # selected_tasks[prev.idx]
    /\ pc = "cluster_end" =>
          /\ Len(attempts) = cluster_size
          /\ cluster_size = ClusterSize(tasks)

\* C12 witness: a cluster ends with as many attempts as sampled tasks although its
\* last task failed.
C12_Witness ==
    /\ pc = "cluster_end"
    /\ prev.outcome = "failed"
    /\ prev.idx = cluster_size
    /\ Len(attempts) = TASK_CLUSTER_COUNT

\* C13: every task execution is immediately preceded by exactly one pre-task delay
\* of a duration within the bound passed to random_delay: [2, 5] seconds at the
\* call site, itself within the default [MIN_ACTION_DELAY, MAX_ACTION_DELAY].
\* A pre-task delay in progress has such a duration; an execution starts only as
\* the step that ends a pre-task delay, one execution per delay; and when the
\* execution is in flight the console shows the task header and one delay line.
C13_PreDelayBeforeEveryExecution ==
    /\ [](pc = "pre_sleep" =>
            /\ PRE_DELAY_MIN <= delay /\ delay <= PRE_DELAY_MAX
            /\ MIN_ACTION_DELAY <= delay /\ delay <= MAX_ACTION_DELAY)
    /\ [](pc = "run" => log = <<"task_header", "pre_delay">>)
    /\ [][((executions' # executions \/ (pc' = "run" /\ pc # "run")) =>
               (/\ pc = "pre_sleep"
                /\ pc' = "run"
                /\ executions' = executions + 1
                /\ delay \in random_delay(PRE_DELAY_MIN, PRE_DELAY_MAX)))
           /\ (pc' = "pre_sleep" => pc # "pre_sleep")]_vars

\* C13 witness: the longest pre-task delay is being slept before a task that is not
\* the first of its cluster.
C13_Witness ==
    /\ pc = "pre_sleep"
    /\ delay = PRE_DELAY_MAX
    /\ i = 3
    /\ executions = 2

Finished == {"ok", "failed"}

\* C14: task execution is strictly sequential.  At most one task is in flight: the
\* executions started in a cluster exceed the loop bodies that are over by at most
\* one, and the one is in flight exactly while the driver is inside the run call.
\* A loop body is over only when its execution has completed or failed, and an
\* execution begins only when the loop body of the previous task of the cluster
\* is over, that task's execution having completed or failed.
C14_TasksStrictlySequential ==
    /\ [](prev.idx >= 1 => prev.outcome \in Finished)
    /\ [](InCluster => Len(attempts) - prev.idx \in {0, 1})
    /\ [](pc \notin Terminated =>
            (pc = "run" <=> (Len(attempts) - prev.idx = 1 /\ outcome \notin Finished)))
    /\ [][executions' # executions =>
             (/\ pc # "run"
              /\ Len(attempts) = prev.idx
              /\ prev.idx = i - 1
              /\ i > 1 => prev.outcome \in Finished
              /\ pc' = "run")]_vars

\* C14 witness: BU has its second task in flight, the first having completed.
C14_Witness ==
    /\ driver = "BU"
    /\ pc = "run"
    /\ i = 2
    /\ prev.idx = 1
    /\ prev.outcome = "ok"
    /\ Len(attempts) = 2

\* C15: during the inter-cluster wait a status line is printed only right after a
\* completed 30-second chunk whose zero-based index c has c mod 4 = 3, and only if
\* more than 30 seconds of the wait remain then; none is printed after the
\* remainder sleep.  The chunks recorded as followed by a status line satisfy both
\* conditions and were slept in full; a status line on the console is the one of
\* the chunk completed last; it appears only as the step that ends a chunk sleep;
\* and the console shows none during or after the remainder sleep.
C15_StatusOnlyAfterFourthChunk ==
    /\ [](\A c \in statusAt :
            /\ c % STATUS_EVERY = STATUS_EVERY - 1
            /\ wait_time - (c + 1) * CHUNK_SECONDS > CHUNK_SECONDS
            /\ c + 1 <= Len(slept)
            /\ slept[c + 1] = CHUNK_SECONDS)
    /\ [](InLog("status") => (Len(slept) - 1) \in statusAt)
    /\ []((pc = "rem_sleep" \/ WaitOver) => ~InLog("status"))
    /\ [][(statusAt' # statusAt /\ statusAt' # {}) =>
             (/\ pc = "chunk_sleep"
              /\ delay = CHUNK_SECONDS
              /\ statusAt' = statusAt \cup {chunk}
              /\ log' = <<"status">>)]_vars

\* C15 witness: in a wait of more than 510 seconds the status line is printed after
\* the sixteenth chunk (index 15), as after the fourth, eighth and twelfth.
C15_Witness ==
    /\ pc = "chunk_sleep"
    /\ log = <<"status">>
    /\ statusAt = {3, 7, 11, 15}
    /\ Len(slept) = 16

\* C16 (BU): one browser handle serves the whole run.  It is opened once, before
\* the first cluster, and never again; while the driver is in the outer loop the
\* handle is open; every task execution, in every cluster, runs an agent around
\* that handle, and at most one agent uses it at a time; and the handle is closed
\* only by the step that leaves the loop on a KeyboardInterrupt or a fatal error.
C16_SingleBrowserHandle ==
    /\ [](driver = "BU" =>
            /\ browser.opens <= 1
            /\ browser.users \in {0, 1}
            /\ iteration >= 1 => browser.opens = 1
            /\ (pc \in OuterPcs \cup TryPcs \cup {"recover_sleep"}) => browser.open
            /\ pc = "run" => browser = [opens |-> 1, open |-> TRUE, users |-> 1]
            /\ (pc # "run" /\ pc \notin Terminated) => browser.users = 0
            /\ (browser.opens = 1 /\ ~browser.open) =>
                  (pc = "exited" /\ raised.exc \in ErrorKinds \cup {Interrupt}))
    /\ [][driver = "BU" =>
             /\ browser'.opens # browser.opens =>
                   (pc = "browser" /\ iteration = 0 /\ executions = 0)
             /\ (browser.open /\ ~browser'.open) =>
                   (/\ pc' = "exited"
                    /\ raised'.at = pc
                    /\ exitStatus' = IF raised'.exc = Interrupt THEN 0 ELSE 1)]_vars

\* C16 witness: in the second cluster of a BU run a task's agent uses the handle
\* opened at start-up.
C16_Witness ==
    /\ driver = "BU"
    /\ iteration = 2
    /\ pc = "run"
    /\ i = 2
    /\ browser = [opens |-> 1, open |-> TRUE, users |-> 1]

BrowserTaskLines == {"error_timed_out", "error_connection", "error_task_failed"}

\* C17 (BU): perform_browser_task raises no error but KeyboardInterrupt to its
\* caller.  The step that ends an execution in flight returns to the loop body (or
\* is the interrupt's exit); a failed execution has logged its error inside
\* perform_browser_task and handed None to the loop body, which is then on its
\* normal path: "Task failed or timed out", the execution time, and the ordinary
\* inter-task delay unless the task is the last.  The "Unexpected error" line and
\* the recovery wait are reached only from a task whose execution completed.
C17_BrowserTaskErrorBecomesNone ==
    /\ [](driver = "BU" =>
            /\ (outcome = "failed" /\ pc \in TryPcs \cup {"recover_sleep"}) =>
                  /\ result = "None"
                  /\ pc \in {"result", "inter_sleep"}
                  /\ Len(log) >= 3 /\ log[3] \in BrowserTaskLines
                  /\ ~InLog("error_unexpected") /\ ~InLog("recovery")
                  /\ pc = "inter_sleep" =>
                        /\ SubSeq(log, 4, Len(log)) = <<"result_failed", "time", "inter_wait">>
                        /\ i < cluster_size
            /\ (pc = "recover_sleep" \/ InLog("error_unexpected")) => outcome = "ok"
            /\ prev.outcome = "failed" =>
                  /\ ~prev.handled
                  /\ prev.sleeps = IF prev.idx < cluster_size THEN <<"inter">> ELSE <<>>)
    /\ [][(driver = "BU" /\ pc = "run" /\ pc' # "run") =>
             \/ pc' = "result" /\ result' \in {"value", "None"}
             \/ pc' = "exited" /\ raised'.exc = Interrupt]_vars

\* C17 witness: a BU task timed out; the loop body printed the failure and the
\* time and sleeps the inter-task delay.
C17_Witness ==
    /\ driver = "BU"
    /\ pc = "inter_sleep"
    /\ result = "None"
    /\ log = <<"task_header", "pre_delay", "error_timed_out", "result_failed", "time",
               "inter_wait">>

\* C18: clusters never overlap and are separated by a complete inter-cluster wait.
\* iteration changes only by the step that starts a cluster, by exactly 1, and
\* every cluster start is such a step; the step is taken from the top of the
\* loop, and after the first cluster only when the previous cluster has returned
\* (its locals are gone, all its tasks were executed) and the sleeps of the wait
\* drawn after it, the 30-second chunks and the remainder, add up to that wait.
\* While a cluster runs no wait is in progress, and while a wait is in progress no
\* cluster runs.
C18_ClustersSeparatedByWholeWait ==
    /\ [][(iteration' # iteration \/ (pc' = "cluster" /\ pc # "cluster")) =>
             (/\ iteration' = iteration + 1
              /\ pc = "loop"
              /\ pc' = "cluster"
              /\ selected_tasks = <<>> /\ attempts = <<>>
              /\ executions = iteration * ClusterSize(tasks)
              /\ iteration >= 1 =>
                    /\ 10 * wait_time >= 8 * GROUPING_INTERVAL
                    /\ SumSeq(slept) = wait_time
                    /\ \A k \in 1..Len(slept) : slept[k] <= CHUNK_SECONDS)]_vars
    /\ [](InCluster =>
            /\ iteration >= 1
            /\ slept = <<>> /\ wait_time = 0
            /\ executions <= iteration * ClusterSize(tasks)
            /\ executions >= (iteration - 1) * ClusterSize(tasks))
    /\ [](InWait =>
            /\ selected_tasks = <<>>
            /\ executions = iteration * ClusterSize(tasks)
            /\ SumSeq(slept) < wait_time)

\* C18 witness: the second cluster has begun its first task, after the five
\* executions of the first cluster and the wait that followed it.
C18_Witness ==
    /\ iteration = 2
    /\ pc = "pre_sleep"
    /\ i = 1
    /\ executions = TASK_CLUSTER_COUNT
    /\ slept = <<>>

\* C19 (SMOL): when the construction of the model or of the agent raises an error
\* other than KeyboardInterrupt, the process exits with status 1 from the module
\* level, main() never having been called: the outer loop is not entered, no
\* cluster is sampled and no task is executed, then or later.
C19_InitFailureExitsBeforeLoop ==
    (driver = "SMOL" /\ raised.at = "init" /\ raised.exc \in ErrorKinds) =>
        /\ pc = "exited"
        /\ exitStatus = 1
        /\ log = <<"error_init">>
        /\ iteration = 0
        /\ selected_tasks = <<>>
        /\ attempts = <<>>
        /\ executions = 0

\* C19 witness: SMOL has exited with status 1 on an error of the agent's
\* construction.
C19_Witness ==
    /\ driver = "SMOL"
    /\ raised = [exc |-> "Exception", at |-> "init", executions |-> 0]
    /\ pc = "exited"
    /\ exitStatus = 1

====
